---- MODULE Spec2Model ----
(***************************************************************************)
(* API de Estudiantes (main.py): a FastAPI CRUD service over the table     *)
(* "estudiantes" of a PostgreSQL database, reached through SQLAlchemy      *)
(* sessions (autoflush=False, autocommit=False, expire_on_commit default). *)
(*                                                                         *)
(* Handlers are plain "def" functions, so the framework runs them on a     *)
(* thread pool: several requests are in flight at once and interleave      *)
(* between their database round trips.  Every round trip of a handler      *)
(* (SELECT, the INSERT/UPDATE/DELETE of the flush, COMMIT, the SELECT of   *)
(* refresh) is one step of the model; PostgreSQL runs the transactions at  *)
(* READ COMMITTED, so a statement sees the rows committed when it runs,    *)
(* an UPDATE or DELETE holds its row lock until COMMIT or ROLLBACK, and    *)
(* the id sequence is advanced by the INSERT, not by the COMMIT.           *)
(***************************************************************************)
EXTENDS Integers, Sequences, FiniteSets

\* ---------------------------------------------------------------- bounds
\* Requests served in a run.
MaxPeticiones == 3

\* The threads of the pool: two requests are in flight at once, and every
\* race of the service is a race between two requests.
Workers == {1, 2}
\* The ids the sequence can hand out in a run: the one of the row the table
\* may start with, and one per POST at most.
Ids == 1..(MaxPeticiones + 1)
\* The ids the clients ask for in the path of GET, PUT and DELETE.
IdsPedidos == {1, 2}

\* ------------------------------------------------------------ JSON bodies
\* A JSON field as it arrives: t is its JSON type, v its value.
\*   texto     a string that is not a number         ("Ana")
\*   entero    a JSON integer                        (20)
\*   textonum  a string holding an integer           ("21")
\*   lista     a JSON array
\*   falta     the field is absent
CampoTexto(v) == [t |-> "texto", v |-> v]
CampoEntero(n) == [t |-> "entero", n |-> n]
CampoTextoNum(n) == [t |-> "textonum", n |-> n]
CampoTextoEdad == [t |-> "texto", n |-> 0]
NombreAusente == [t |-> "falta", v |-> ""]
NombreLista == [t |-> "lista", v |-> ""]
EdadAusente == [t |-> "falta", n |-> 0]

SinCuerpo == [nombre |-> NombreAusente, edad |-> EdadAusente]

\* The bodies the clients send: well-typed ones, one whose edad is a numeric
\* string, and the malformed ones (nombre missing, nombre not a string, edad
\* missing, edad a non-numeric string).
Cuerpos ==
    {[nombre |-> CampoTexto("Ana"), edad |-> CampoEntero(20)],
     [nombre |-> CampoTexto("Bea"), edad |-> CampoEntero(20)],
     [nombre |-> CampoTexto("Ana"), edad |-> CampoEntero(21)],
     [nombre |-> CampoTexto("Bea"), edad |-> CampoTextoNum(21)],
     [nombre |-> NombreAusente, edad |-> CampoEntero(20)],
     [nombre |-> NombreLista, edad |-> CampoEntero(21)],
     [nombre |-> CampoTexto("Ana"), edad |-> EdadAusente],
     [nombre |-> CampoTexto("Bea"), edad |-> CampoTextoEdad]}

\* EstudianteSchema: nombre: str, edad: int.  pydantic accepts a string for
\* nombre, and for edad an integer or a string that parses as one.
\* (NombreValidoLaxo: the faulty schema in which nombre is optional.)
NombreValidoLaxo(c) == c.nombre.t \in {"texto", "falta"}
NombreValido(c) == c.nombre.t = "texto"
EdadValida(c) == c.edad.t \in {"entero", "textonum"}
EstudianteSchema(c) == NombreValido(c) /\ EdadValida(c)

\* The validated object the handler receives: edad is converted to int.
Validado(c) == [nombre |-> c.nombre.v, edad |-> c.edad.n]

\* ------------------------------------------------------------------ rows
\* class Estudiante: id (primary key, autoincrement), nombre, edad.
Estudiante(i, a, n) == [id |-> i, nombre |-> a, edad |-> n]
\* "No row" (first() returned None); ids start at 1.
NoFila == Estudiante(0, "", 0)
NoPend == [op |-> "-", fila |-> NoFila, cols |-> {}]

VARIABLES
    estudiantes,  \* the committed rows of table "estudiantes"
    seq,          \* last value of the id sequence estudiantes_id_seq
    req,          \* per worker thread: the request it is running; beside the
                  \* handler's locals, history of the request: fallo (the
                  \* connection failed under one of its statements), escribio
                  \* (its transaction committed a change of the table),
                  \* llamadas (statements it sent), visto (eco[id] when it
                  \* read the row); a free thread keeps the status of the
                  \* request it ran last
    abiertas,     \* sessions created by SessionLocal() and not yet closed
    atendidas,    \* requests received so far
    eco,          \* history: per id, the row as its POST committed it and then
                  \* echoed it, while no UPDATE or DELETE of it has committed
                  \* since (NoFila otherwise)
    borrado200,   \* history: ids for which a DELETE has returned 200
    maxConf       \* history: largest id a POST has committed so far

vars == <<estudiantes, seq, req, abiertas, atendidas, eco, borrado200, maxConf>>
historia == <<eco, borrado200, maxConf>>
resto == <<atendidas, historia>>

Libre ==
    [pc |-> "libre", kind |-> "-", id |-> 0, cuerpo |-> SinCuerpo,
     status |-> 0, resp |-> NoFila, data |-> <<>>, count |-> 0,
     est |-> NoFila, pend |-> NoPend,
     fallo |-> FALSE, escribio |-> FALSE, llamadas |-> 0, visto |-> NoFila]

\* The table as create_all finds it: empty and never used, or holding the
\* row an earlier run of the service has left.
TablasIniciales == {{}, {Estudiante(1, "Ana", 20)}}

Init ==
    /\ estudiantes \in TablasIniciales
    /\ seq = Cardinality(estudiantes)
    /\ req = [w \in Workers |-> Libre]
    /\ abiertas = 0
    /\ atendidas = 0
    /\ eco = [i \in Ids |-> NoFila]
    /\ borrado200 = {}
    /\ maxConf = seq

\* ------------------------------------------------------------ the engine
\* db.query(Estudiante).filter(Estudiante.id == id).first()
Primero(i) ==
    IF \E r \in estudiantes : r.id = i
    THEN CHOOSE r \in estudiantes : r.id = i
    ELSE NoFila

\* db.query(Estudiante).all(): the orders in which SELECT without ORDER BY
\* may return the rows.  (OrdenesUno: the faulty query that fetches one row.)
OrdenesUno(S) == IF S = {} THEN {<<>>} ELSE {<<r>> : r \in S}
Ordenes(S) ==
    {s \in [1..Cardinality(S) -> S] : \A i, j \in 1..Cardinality(S) : i # j => s[i] # s[j]}

\* nextval('estudiantes_id_seq').  (NextvalRepite: a faulty sequence that
\* hands its last value out again.)
NextvalRepite == IF seq = 0 THEN 1 ELSE seq
Nextval == seq + 1

\* DELETE FROM estudiantes WHERE id = :id, committed.  (BorrarSinCommit: the
\* faulty handler whose DELETE is never committed.)
BorrarSinCommit(tabla, i) == tabla
Borrar(tabla, i) == {r \in tabla : r.id # i}

\* A row lock taken by the UPDATE or DELETE of another transaction that has
\* flushed and not yet committed or rolled back.
Bloqueada(i, w) ==
    \E v \in Workers \ {w} :
        /\ req[v].pc = "volcado"
        /\ req[v].pend.op \in {"update", "delete"}
        /\ req[v].pend.fila.id = i

\* One more round trip to the database on this request's session.
Llamada(s) == [s EXCEPT !.llamadas = @ + 1]

\* raise HTTPException(status_code=code) / return: the handler is over.
Responder(s, code) == [s EXCEPT !.pc = "respondido", !.status = code, !.est = NoFila]

\* except Exception: raise HTTPException(500) of the read handlers.
Error500(s) == Responder(s, 500)

\* except Exception: db.rollback(); raise HTTPException(500): what the
\* transaction has flushed and not committed is discarded, its lock released.
Rollback500(s) == [Responder(s, 500) EXCEPT !.pend = NoPend]

\* The connection fails under the statement (OperationalError).
Fallo(s) == [Llamada(s) EXCEPT !.fallo = TRUE]

Poner(w, s) == req' = [req EXCEPT ![w] = s]

\* ---------------------------------------------------------------- get_db
\* The pool thread that takes the next request.
LibreMenor(w) == req[w].pc = "libre" /\ \A v \in Workers : v < w => req[v].pc # "libre"

Entradas ==
    {<<"list", 0, SinCuerpo>>}
    \cup {<<"get", i, SinCuerpo>> : i \in IdsPedidos}
    \cup {<<"delete", i, SinCuerpo>> : i \in IdsPedidos}
    \cup {<<"post", 0, c>> : c \in Cuerpos}
    \cup {<<"put", i, c>> : i \in IdsPedidos, c \in Cuerpos}

\* A request arrives: Depends(get_db) creates the session, then the body is
\* validated against EstudianteSchema; 422 without entering the handler.
Recibir(w, k, i, c) ==
    /\ LibreMenor(w)
    /\ atendidas < MaxPeticiones
    /\ atendidas' = atendidas + 1
    /\ abiertas' = abiertas + 1
    /\ LET s == [Libre EXCEPT !.kind = k, !.id = i, !.cuerpo = c]
       IN  Poner(w, IF k \in {"post", "put"} /\ ~EstudianteSchema(c)
                    THEN Responder(s, 422)
                    ELSE [s EXCEPT !.pc = "inicio"])
    /\ UNCHANGED <<estudiantes, seq, historia>>

\* finally: db.close(), after the handler returned or raised.
\* (CierraSalvoError: the faulty dependency that skips close() on a 500.)
CierraSalvoError(s) == IF s.status = 500 THEN abiertas ELSE abiertas - 1
Cierra(s) == abiertas - 1

get_db(w) ==
    /\ req[w].pc = "respondido"
    /\ abiertas' = Cierra(req[w])
    /\ Poner(w, [Libre EXCEPT !.status = req[w].status])
    /\ UNCHANGED <<estudiantes, seq, resto>>

\* -------------------------------------------------------- GET /estudiantes/
get_estudiantes(w) ==
    /\ req[w].pc = "inicio" /\ req[w].kind = "list"
    /\ \/ \E o \in Ordenes(estudiantes) :
            Poner(w, [Responder(Llamada(req[w]), 200) EXCEPT
                        !.data = o, !.count = Len(o)])
       \/ Poner(w, Error500(Fallo(req[w])))
    /\ UNCHANGED <<estudiantes, seq, abiertas, resto>>

\* ---------------------------------------------------- GET /estudiantes/{id}
get_estudiante(w) ==
    /\ req[w].pc = "inicio" /\ req[w].kind = "get"
    /\ LET s == Llamada(req[w])
           estudiante == Primero(req[w].id)
       IN  \/ Poner(w, IF estudiante = NoFila
                       THEN [Responder(s, 404) EXCEPT !.visto = eco[req[w].id]]
                       ELSE [Responder(s, 200) EXCEPT !.resp = estudiante,
                                                      !.visto = eco[req[w].id]])
           \/ Poner(w, Error500(Fallo(req[w])))
    /\ UNCHANGED <<estudiantes, seq, abiertas, resto>>

\* ------------------------------------------------------- POST /estudiantes/
\* db.add(db_estudiante); db.commit(), first half: the flush sends the INSERT,
\* which draws the id from the sequence.  The primary key rejects a second
\* row with the same id (IntegrityError).
crear_estudiante_flush(w) ==
    /\ req[w].pc = "inicio" /\ req[w].kind = "post"
    /\ LET s == Llamada(req[w])
           v == Validado(req[w].cuerpo)
           db_estudiante == Estudiante(Nextval, v.nombre, v.edad)
       IN  \/ /\ seq' = Nextval
              /\ Poner(w, IF Primero(db_estudiante.id) # NoFila
                          THEN Rollback500(s)
                          ELSE [s EXCEPT !.pc = "volcado", !.est = db_estudiante,
                                         !.pend = [op |-> "insert", fila |-> db_estudiante,
                                                   cols |-> {}]])
           \/ /\ seq' = seq
              /\ Poner(w, Rollback500(Fallo(req[w])))
    /\ UNCHANGED <<estudiantes, abiertas, resto>>

\* db.commit(), second half: COMMIT makes the row visible.
crear_estudiante_commit(w) ==
    /\ req[w].pc = "volcado" /\ req[w].kind = "post"
    /\ \/ /\ estudiantes' = estudiantes \cup {req[w].pend.fila}
          /\ maxConf' = IF req[w].pend.fila.id > maxConf THEN req[w].pend.fila.id ELSE maxConf
          /\ Poner(w, [Llamada(req[w]) EXCEPT !.pc = "confirmado", !.pend = NoPend,
                                              !.escribio = TRUE])
          /\ eco' = [eco EXCEPT ![req[w].pend.fila.id] = req[w].pend.fila]
       \/ /\ Poner(w, Rollback500(Fallo(req[w])))
          /\ UNCHANGED <<estudiantes, maxConf, eco>>
    /\ UNCHANGED <<seq, abiertas, atendidas, borrado200>>

\* db.refresh(obj): SELECT ... WHERE id = obj.id, the attributes of obj are
\* replaced by what the row holds now (NoFila: the row is gone).
\* (SinRefrescar: the faulty handler that echoes the object it built.)
SinRefrescar(obj) == obj
Refrescar(obj) == Primero(obj.id)

\* db.refresh(db_estudiante): the row is read back by primary key in a new
\* transaction (InvalidRequestError when it is gone), then echoed.
crear_estudiante_refresh(w) ==
    /\ req[w].pc = "confirmado" /\ req[w].kind = "post"
    /\ LET s == Llamada(req[w])
           leida == Refrescar(req[w].est)
       IN  \/ IF leida = NoFila
              THEN Poner(w, Rollback500(s)) /\ eco' = eco
              ELSE /\ Poner(w, [Responder(s, 200) EXCEPT !.resp = leida,
                                    !.visto = eco[leida.id]])
                   /\ eco' = [eco EXCEPT ![leida.id] = leida]
           \/ Poner(w, Rollback500(Fallo(req[w]))) /\ eco' = eco
    /\ UNCHANGED <<estudiantes, seq, abiertas, atendidas, borrado200, maxConf>>

\* ---------------------------------------------------- PUT /estudiantes/{id}
\* est = db.query(Estudiante).filter(Estudiante.id == id).first()
modificar_estudiante_consulta(w) ==
    /\ req[w].pc = "inicio" /\ req[w].kind = "put"
    /\ LET s == Llamada(req[w])
           est == Primero(req[w].id)
       IN  \/ Poner(w, IF est = NoFila
                       THEN Responder(s, 404)
                       ELSE [s EXCEPT !.pc = "consultado", !.est = est])
           \/ Poner(w, Rollback500(Fallo(req[w])))
    /\ UNCHANGED <<estudiantes, seq, abiertas, resto>>

\* The attributes whose new value differs from the loaded one: the unit of
\* work puts only these in the SET clause of the UPDATE.
ColumnasTodas(est, v) == {"nombre", "edad"}
ColumnasCambiadas(est, v) ==
    {c \in {"nombre", "edad"} : IF c = "nombre" THEN v.nombre # est.nombre
                                                ELSE v.edad # est.edad}

\* UPDATE estudiantes SET <cols> WHERE id = :id applied to the current row.
Actualizada(fila, pend) ==
    Estudiante(fila.id,
               IF "nombre" \in pend.cols THEN pend.fila.nombre ELSE fila.nombre,
               IF "edad" \in pend.cols THEN pend.fila.edad ELSE fila.edad)

\* est.nombre = ...; est.edad = ...; db.commit(), first half: the flush.  With
\* nothing changed no UPDATE is sent.  Otherwise the UPDATE waits for the row
\* lock, and StaleDataError is raised when it matches no row.
modificar_estudiante_flush(w) ==
    /\ req[w].pc = "consultado" /\ req[w].kind = "put"
    /\ LET v == Validado(req[w].cuerpo)
           cols == ColumnasCambiadas(req[w].est, v)
           s == Llamada(req[w])
       IN  IF cols = {}
           THEN Poner(w, [req[w] EXCEPT !.pc = "volcado"])
           ELSE /\ ~Bloqueada(req[w].id, w)
                /\ \/ Poner(w, IF Primero(req[w].id) = NoFila
                               THEN Rollback500(s)
                               ELSE [s EXCEPT !.pc = "volcado",
                                       !.pend = [op |-> "update", cols |-> cols,
                                                 fila |-> Estudiante(req[w].id, v.nombre, v.edad)]])
                   \/ Poner(w, Rollback500(Fallo(req[w])))
    /\ UNCHANGED <<estudiantes, seq, abiertas, resto>>

\* db.commit(), second half: COMMIT.
modificar_estudiante_commit(w) ==
    /\ req[w].pc = "volcado" /\ req[w].kind = "put"
    /\ \/ /\ Poner(w, [Llamada(req[w]) EXCEPT !.pc = "confirmado", !.pend = NoPend,
                                              !.escribio = (req[w].pend.op = "update")])
          /\ IF req[w].pend.op = "update"
             THEN /\ estudiantes' = (estudiantes \ {Primero(req[w].id)})
                                    \cup {Actualizada(Primero(req[w].id), req[w].pend)}
                  /\ eco' = [eco EXCEPT ![req[w].id] = NoFila]
             ELSE UNCHANGED <<estudiantes, eco>>
       \/ /\ Poner(w, Rollback500(Fallo(req[w])))
          /\ UNCHANGED <<estudiantes, eco>>
    /\ UNCHANGED <<seq, abiertas, atendidas, borrado200, maxConf>>

\* db.refresh(est), then the row as read back is echoed.
modificar_estudiante_refresh(w) ==
    /\ req[w].pc = "confirmado" /\ req[w].kind = "put"
    /\ LET s == Llamada(req[w])
           leida == Refrescar(req[w].est)
       IN  \/ Poner(w, IF leida = NoFila
                       THEN Rollback500(s)
                       ELSE [Responder(s, 200) EXCEPT !.resp = leida])
           \/ Poner(w, Rollback500(Fallo(req[w])))
    /\ UNCHANGED <<estudiantes, seq, abiertas, resto>>

\* ------------------------------------------------- DELETE /estudiantes/{id}
eliminar_estudiante_consulta(w) ==
    /\ req[w].pc = "inicio" /\ req[w].kind = "delete"
    /\ LET s == Llamada(req[w])
           est == Primero(req[w].id)
       IN  \/ Poner(w, IF est = NoFila
                       THEN Responder(s, 404)
                       ELSE [s EXCEPT !.pc = "consultado", !.est = est])
           \/ Poner(w, Rollback500(Fallo(req[w])))
    /\ UNCHANGED <<estudiantes, seq, abiertas, resto>>

\* db.delete(est); db.commit(), first half: the flush sends DELETE ... WHERE
\* id = :id and waits for the row lock.  A DELETE that matches no row only
\* draws a warning from the unit of work (confirm_deleted_rows), no exception.
eliminar_estudiante_flush(w) ==
    /\ req[w].pc = "consultado" /\ req[w].kind = "delete"
    /\ ~Bloqueada(req[w].id, w)
    /\ LET s == Llamada(req[w])
       IN  \/ Poner(w, IF Primero(req[w].id) = NoFila
                       THEN [s EXCEPT !.pc = "volcado"]
                       ELSE [s EXCEPT !.pc = "volcado",
                               !.pend = [op |-> "delete", cols |-> {},
                                         fila |-> Primero(req[w].id)]])
           \/ Poner(w, Rollback500(Fallo(req[w])))
    /\ UNCHANGED <<estudiantes, seq, abiertas, resto>>

\* db.commit(), second half: COMMIT, then the confirmation message.
eliminar_estudiante_commit(w) ==
    /\ req[w].pc = "volcado" /\ req[w].kind = "delete"
    /\ \/ /\ Poner(w, [Responder(Llamada(req[w]), 200) EXCEPT !.pend = NoPend,
                          !.escribio = (req[w].pend.op = "delete")])
          /\ borrado200' = borrado200 \cup {req[w].id}
          /\ IF req[w].pend.op = "delete"
             THEN /\ estudiantes' = Borrar(estudiantes, req[w].id)
                  /\ eco' = [eco EXCEPT ![req[w].id] = NoFila]
             ELSE UNCHANGED <<estudiantes, eco>>
       \/ /\ Poner(w, Rollback500(Fallo(req[w])))
          /\ UNCHANGED <<estudiantes, eco, borrado200>>
    /\ UNCHANGED <<seq, abiertas, atendidas, maxConf>>

Next ==
    \/ \E w \in Workers : \E e \in Entradas : Recibir(w, e[1], e[2], e[3])
    \/ \E w \in Workers : get_db(w)
    \/ \E w \in Workers : get_estudiantes(w)
    \/ \E w \in Workers : get_estudiante(w)
    \/ \E w \in Workers : crear_estudiante_flush(w)
    \/ \E w \in Workers : crear_estudiante_commit(w)
    \/ \E w \in Workers : crear_estudiante_refresh(w)
    \/ \E w \in Workers : modificar_estudiante_consulta(w)
    \/ \E w \in Workers : modificar_estudiante_flush(w)
    \/ \E w \in Workers : modificar_estudiante_commit(w)
    \/ \E w \in Workers : modificar_estudiante_refresh(w)
    \/ \E w \in Workers : eliminar_estudiante_consulta(w)
    \/ \E w \in Workers : eliminar_estudiante_flush(w)
    \/ \E w \in Workers : eliminar_estudiante_commit(w)

Spec == Init /\ [][Next]_vars

\* ================================================================ claims
Respondido(w, k) == req[w].pc = "respondido" /\ req[w].kind = k
OtrosLibres(w) == \A v \in Workers \ {w} : req[v].pc = "libre"
\* The step in which the request of worker w, of kind k, leaves stage desde.
PasoDe(w, k, desde) == req[w].pc = desde /\ req[w].kind = k /\ req'[w].pc # desde
\* What the request body asks to store.
Pedido(w) == Validado(req[w].cuerpo)
MismosDatos(fila, v) == fila.nombre = v.nombre /\ fila.edad = v.edad

\* ---- C1
\* C1, as stated: a POST that succeeds echoes a fresh id with the nombre and
\* edad of its body.
C1_EcoDelCuerpo ==
    \A w \in Workers :
        Respondido(w, "post") /\ req[w].status = 200
            => req[w].resp.id \in 1..seq /\ MismosDatos(req[w].resp, Pedido(w))

\* C1, amended: a POST that succeeds returns a freshly assigned id N with the
\* nombre and edad its refresh read back after the commit; these are the
\* body's unless an UPDATE of N committed between the POST's commit and its
\* refresh.  The row is committed when POST returns: while no UPDATE or
\* DELETE of N has committed since, the table holds the row exactly as
\* echoed, and a GET of N that meets no storage error returns 200 with
\* exactly that nombre and edad.
C1_PostLuegoGet ==
    /\ \A i \in Ids : eco[i] # NoFila => eco[i].id = i /\ eco[i] \in estudiantes
    /\ \A w \in Workers :
        /\ Respondido(w, "post") /\ req[w].status = 200
              => /\ req[w].resp.id \in 1..seq
                 /\ req[w].visto # NoFila => MismosDatos(req[w].resp, Pedido(w))
                 /\ eco[req[w].resp.id] # NoFila => req[w].resp = eco[req[w].resp.id]
        /\ Respondido(w, "get") /\ ~req[w].fallo /\ req[w].visto # NoFila
              => req[w].status = 200 /\ req[w].resp = req[w].visto

\* A GET answered 200 from a row still as its POST echoed it, the POST over.
C1_Witness ==
    \E w \in Workers :
        /\ Respondido(w, "get") /\ req[w].status = 200
        /\ req[w].visto # NoFila /\ req[w].resp = req[w].visto
        /\ OtrosLibres(w)

\* ---- C2
\* A body as the claim reads "valid": nombre a string, edad a JSON integer.
TipadoEstricto(c) == c.nombre.t = "texto" /\ c.edad.t = "entero"
\* A body pydantic can convert: edad may also be a string holding an integer.
Convertible(c) == c.nombre.t = "texto" /\ c.edad.t \in {"entero", "textonum"}
ConCuerpo(w) == req[w].pc # "libre" /\ req[w].kind \in {"post", "put"}
Rechazado(w) ==
    /\ req[w].pc = "respondido" /\ req[w].status = 422
    /\ req[w].llamadas = 0 /\ ~req[w].escribio

\* C2, as stated: a POST or PUT whose nombre is missing or not text, or whose
\* edad is missing or not an integer, is answered 422 without any statement.
C2_NoEnteroEs422 ==
    \A w \in Workers : ConCuerpo(w) /\ ~TipadoEstricto(req[w].cuerpo) => Rechazado(w)

\* C2, amended: a POST or PUT whose nombre is missing or not text, or whose
\* edad is missing or cannot be converted to an integer (a numeric string
\* such as "21" is accepted and stored as 21), returns 422, sends no
\* statement to the database and leaves the table as it was.
C2_Invalido422 ==
    /\ [](\A w \in Workers : ConCuerpo(w) /\ ~Convertible(req[w].cuerpo) => Rechazado(w))
    /\ [][\A w \in Workers :
            req[w].pc = "libre" /\ req'[w].status = 422 /\ req'[w].pc = "respondido"
                => estudiantes' = estudiantes /\ seq' = seq]_vars

C2_Witness ==
    /\ estudiantes # {}
    /\ \E w \in Workers :
        /\ Respondido(w, "put") /\ req[w].status = 422
        /\ req[w].cuerpo.edad.t = "texto"
        /\ Primero(req[w].id) # NoFila

\* ---- C3
\* C3: a GET of an id that has no row returns 404 (500 when the connection
\* fails under its SELECT, never 200) and leaves the table as it is; once a
\* DELETE of an id has returned 200 the id has no row ever again, whatever
\* POSTs, PUTs and DELETEs follow, so every later GET of it returns 404.
C3_GetAusente404 ==
    /\ [](\A i \in borrado200 : Primero(i) = NoFila)
    /\ [][\A w \in Workers :
            PasoDe(w, "get", "inicio")
                => /\ estudiantes' = estudiantes
                   /\ Primero(req[w].id) = NoFila \/ req[w].id \in borrado200
                        => /\ req'[w].status \in {404, 500}
                           /\ req'[w].status = 500 => req'[w].fallo]_vars

\* A GET answered 404 for a deleted id after a later POST created another row.
C3_Witness ==
    \E w \in Workers :
        /\ Respondido(w, "get") /\ req[w].status = 404
        /\ req[w].id \in borrado200
        /\ \E r \in estudiantes : r.id > req[w].id

\* ---- C4
\* C4: a PUT for which no row matches returns 404, also when the row was
\* there at its lookup and a concurrent DELETE commits before its own commit:
\* a PUT that met no storage error never returns 500.
C4_PutSinFila404 ==
    \A w \in Workers :
        Respondido(w, "put") /\ ~req[w].fallo => req[w].status \in {200, 404, 422}

\* ---- C5
\* C5: a DELETE for which no row matches returns 404: a DELETE returns 200
\* only when its own transaction removed the row, so of two concurrent
\* DELETEs of one id exactly one returns 200.
C5_UnSoloBorrado200 ==
    /\ \A w \in Workers :
          Respondido(w, "delete") /\ req[w].status = 200 => req[w].escribio
    /\ \A w, v \in Workers :
          /\ w # v /\ Respondido(w, "delete") /\ Respondido(v, "delete")
          /\ req[w].id = req[v].id
          => ~(req[w].status = 200 /\ req[v].status = 200)

\* ---- C6
\* C6: after two PUTs of one id have both returned 200, the stored (nombre,
\* edad) is the body of one of them, never the nombre of one with the edad
\* of the other.
C6_SinMezcla ==
    \A w, v \in Workers :
        /\ w # v /\ Respondido(w, "put") /\ Respondido(v, "put")
        /\ req[w].id = req[v].id
        /\ req[w].status = 200 /\ req[v].status = 200
        /\ Primero(req[w].id) # NoFila
        => \/ MismosDatos(Primero(req[w].id), Pedido(w))
           \/ MismosDatos(Primero(req[w].id), Pedido(v))

\* ---- C7
\* C7: a create, update or delete that returns 500 has left no write behind.
C7_Error500SinEscritura ==
    \A w \in Workers :
        /\ req[w].pc = "respondido" /\ req[w].kind \in {"post", "put", "delete"}
        /\ req[w].status = 500
        => ~req[w].escribio

\* ---- C8
FilaBienFormada(r) ==
    /\ r.id \in 1..seq
    /\ r.nombre \in {"Ana", "Bea"}
    /\ r.edad \in {20, 21}
IdsUnicos == \A r, q \in estudiantes : r.id = q.id => r = q
\* The ids that INSERTs have drawn and not yet committed.
EnInsercion(w) == req[w].kind = "post" /\ req[w].pc = "volcado"

\* C8, as stated: every stored student has a non-null id, nombre and edad, no
\* two share an id, and the ids of POST are strictly increasing in commit
\* order.
C8_OrdenDeCommit ==
    /\ [](\A r \in estudiantes : FilaBienFormada(r))
    /\ []IdsUnicos
    /\ [][\A w \in Workers :
            PasoDe(w, "post", "volcado") /\ req'[w].pc = "confirmado"
                => req[w].pend.fila.id > maxConf]_vars

\* C8, amended: every stored student has a non-null id, nombre and edad, no
\* two share an id, and the ids of POST are strictly increasing in the order
\* of their INSERTs (not of their commits: of two concurrent POSTs the one
\* with the larger id may commit first), so an id is never assigned twice.
C8_OrdenDeAsignacion ==
    /\ [](\A r \in estudiantes : FilaBienFormada(r))
    /\ []IdsUnicos
    /\ [](\A w \in Workers : EnInsercion(w) =>
            /\ req[w].pend.fila.id \in 1..seq
            /\ Primero(req[w].pend.fila.id) = NoFila
            /\ req[w].pend.fila.id \notin borrado200
            /\ \A v \in Workers \ {w} :
                  EnInsercion(v) => req[v].pend.fila.id # req[w].pend.fila.id)
    /\ [][\A w \in Workers :
            PasoDe(w, "post", "inicio") /\ req'[w].pc = "volcado"
                => /\ req'[w].pend.fila.id = seq'
                   /\ seq' > seq
                   /\ \A r \in estudiantes : r.id < seq']_vars

\* Two rows stored, the one with the larger id committed first.
C8_Witness ==
    /\ Cardinality(estudiantes) = 1
    /\ \E r \in estudiantes : r.id = 2
    /\ \E w \in Workers : EnInsercion(w) /\ req[w].pend.fila.id = 1

\* ---- C9
Elementos(o) == {o[i] : i \in 1..Len(o)}

\* C9: every 200 response of GET /estudiantes/ has count equal to the length
\* of data, and data holds exactly one entry for each row committed at the
\* time of the query (none and count 0 for an empty table); the request does
\* not change the table.
C9_ListaCompleta ==
    /\ [](\A w \in Workers :
            Respondido(w, "list") /\ req[w].status = 200
                => req[w].count = Len(req[w].data))
    /\ [][\A w \in Workers :
            PasoDe(w, "list", "inicio")
                => /\ estudiantes' = estudiantes
                   /\ req'[w].status = 200 =>
                        /\ req'[w].count = Cardinality(estudiantes)
                        /\ Len(req'[w].data) = Cardinality(estudiantes)
                        /\ Elementos(req'[w].data) = estudiantes
                        /\ estudiantes = {} => req'[w].data = <<>>]_vars

C9_Witness ==
    \E w \in Workers :
        /\ Respondido(w, "list") /\ req[w].status = 200
        /\ req[w].count = 2 /\ Elementos(req[w].data) = estudiantes

\* ---- C10
EnCurso == {w \in Workers : req[w].pc # "libre"}

\* C10: every request in flight holds one open session of its own and the
\* session is closed once on every exit path, so the open sessions are as
\* many as the requests in flight, and none when all have completed.
C10_SesionesCerradas ==
    /\ abiertas = Cardinality(EnCurso)
    /\ EnCurso = {} => abiertas = 0

\* All requests over, one of them through the 500 path, none left open.
C10_Witness ==
    /\ EnCurso = {} /\ abiertas = 0
    /\ \E w \in Workers : req[w].status = 500
    /\ \E w \in Workers : req[w].status = 404
====
